---------------------------- MODULE Spec2Model ----------------------------
(***************************************************************************)
(* Connectors of the CustomModules repository (Jira, ServiceNow, Yext,     *)
(* Azure cognitive text, Bing search) as a state machine of one connector  *)
(* invocation: the call validates its arguments, issues its outbound       *)
(* request, and the transport's callbacks write to the flow context and    *)
(* settle the promise the call returned.                                   *)
(***************************************************************************)
EXTENDS Integers, Sequences, FiniteSets, TLC

VARIABLES
    pc,         \* position of the invocation: idle, awaitingFile, awaiting, streaming, done, uncaught
    conn,       \* the connector function that was invoked
    args,       \* the arguments (and secret) it was invoked with
    promise,    \* the promise the connector returned: state and settled value
    context,    \* the conversation context map (addToContext / getFullContext())
    inputMap,   \* the input map (input.input)
    writes,     \* every write made to context or input, in order
    log,        \* input.actions.log calls, in order
    outputs,    \* input.actions.output calls, in order
    requests,   \* outbound requests issued, in order
    detached,   \* reasons of rejected promises that were created and dropped
    delivered,  \* what the transport handed to the connector's callback last
    body,       \* response body accumulated by the 'data' listener
    round,      \* which invocation of the conversation this is: 1 or 2
    firstRun,   \* what the first invocation of the conversation left behind
    focus,      \* the conversation whose callback the event loop runs: 0 when there is one only
    other       \* the state of the conversation the event loop is not running

\* the flow engine's variables: no connector step reads or writes them
engine == <<round, firstRun, focus, other>>

vars == <<pc, conn, args, promise, context, inputMap, writes, log, outputs, requests, detached, delivered, body,
          round, firstRun, focus, other>>

----------------------------------------------------------------------------
(* Bounds of the model *)

\* how many required fields one invocation may leave out
MaxMissing == 1
\* how many 'data' events one response may deliver
MaxChunks == 2
\* length of the flow's input text
MaxTextLen == 6

----------------------------------------------------------------------------
(* JavaScript values: every value is a record with a tag *)

Undefined == [tag |-> "undefined"]
Null == [tag |-> "null"]
Str(s) == [tag |-> "string", s |-> s]
Num(n) == [tag |-> "number", n |-> n]
Arr(items) == [tag |-> "array", items |-> items]
\* an Error object: new Error(message)
JsError(m) == [tag |-> "Error", message |-> m]
\* the object literal { error: m }
ErrObj(m) == [tag |-> "object", error |-> m]
\* the object literal {}
EmptyObj == [tag |-> "object"]
\* the flow input object a connector resolves with
InputRef == [tag |-> "input"]

\* JavaScript truthiness
Truthy(v) ==
    /\ v.tag \notin {"undefined", "null"}
    /\ (v.tag = "string" => v.s # "")
    /\ (v.tag = "number" => v.n # 0)

\* property access obj.name
Get(obj, name) == IF name \in DOMAIN obj THEN obj[name] ELSE Undefined

\* a || b
Or(a, b) == IF Truthy(a) THEN a ELSE b
\* a && b
And(a, b) == IF Truthy(a) THEN b ELSE a

\* Object.keys(obj).length === 0
NoKeys(obj) == DOMAIN obj = {"tag"}

----------------------------------------------------------------------------
(* The connectors *)

FieldConnectors ==
    {"getTicketStatus", "getTicketAssignee", "getTicketPriority", "getTicketResolution",
     "getTicketReporter", "getTicketComments", "getTicketWatchers"}
JiraFetchConnectors == FieldConnectors \cup {"getTicketSummary", "getAllTicketInfo"}
JiraConnectors == JiraFetchConnectors \cup {"createJiraTicket", "extractTicket"}
ServiceNowConnectors ==
    {"GETFromTable", "POSTToTable", "PatchRecordInTable", "DeleteFromTable",
     "GETAttachments", "GETAttachmentById", "POSTAttachment", "DeleteAttachment"}
YextConnectors == {"GetEntity"}
\* the cognitive-text connectors built on https.request
HttpsTextConnectors == {"spellCheck", "recognizeLanguage", "extractKeyphrases", "namedEntityRecognition"}
AzureConnectors == HttpsTextConnectors \cup {"textTranslator"}
BingConnectors == {"bingWebSearch", "bingNewsSearch", "bingImageSearch"}
Connectors ==
    JiraConnectors \cup ServiceNowConnectors \cup YextConnectors \cup AzureConnectors \cup BingConnectors

\* the field name passed to processJiraIssue by each single-field connector
FieldNameOf(c) ==
    CASE c = "getTicketStatus" -> "status"
      [] c = "getTicketAssignee" -> "assignee"
      [] c = "getTicketPriority" -> "priority"
      [] c = "getTicketResolution" -> "resolution"
      [] c = "getTicketReporter" -> "reporter"
      [] c = "getTicketComments" -> "comment"
      [] c = "getTicketWatchers" -> "watches"

\* the name of the argument that holds the store location
StoreField(c) == IF c \in JiraConnectors THEN "contextStore" ELSE "store"

\* the secret's credential fields a connector reads
SecretFields(c) ==
    CASE c = "extractTicket" -> {}
      [] c \in JiraConnectors \ {"extractTicket"} -> {"secret.username", "secret.password", "secret.domain"}
      [] c \in ServiceNowConnectors -> {"secret.username", "secret.password", "secret.instance"}
      [] c \in YextConnectors -> {"secret.api_key"}
      [] OTHER -> {"secret.key"}

\* the non-optional, non-boolean arguments of the connector's args type
RequiredArgs(c) ==
    CASE c = "createJiraTicket" -> {"secret", "summary", "projectId", "epicname", "description", "contextStore"}
      [] c = "extractTicket" -> {"contextStore"}
      [] c \in JiraFetchConnectors -> {"secret", "ticket", "contextStore"}
      [] c = "GetEntity" -> {"secret", "entity", "api_version", "store"}
      [] c \in {"GETFromTable"} -> {"secret", "tableName", "store"}
      [] c = "POSTToTable" -> {"secret", "tableName", "data", "store"}
      [] c = "PatchRecordInTable" -> {"secret", "tableName", "data", "sysId", "store"}
      [] c = "DeleteFromTable" -> {"secret", "tableName", "sysId", "store"}
      [] c = "GETAttachments" -> {"secret", "store"}
      [] c \in {"GETAttachmentById", "DeleteAttachment"} -> {"secret", "sysId", "store"}
      [] c = "POSTAttachment" -> {"secret", "tableName", "tableSysId", "fileName", "fileLocation", "store"}
      [] c = "recognizeLanguage" -> {"secret", "text", "store"}
      [] c \in AzureConnectors \ {"recognizeLanguage"} -> {"secret", "language", "text", "store"}
      [] c = "bingWebSearch" -> {"secret", "query", "store"}
      [] c \in {"bingNewsSearch", "bingImageSearch"} -> {"secret", "term", "store"}

RequiredFields(c) == RequiredArgs(c) \cup SecretFields(c)


----------------------------------------------------------------------------
(* Argument and secret validation *)

\* one validation statement: it fails when one of `fields` is missing, with `msg`
Check(fields, msg) == [fields |-> fields, msg |-> msg]

\* the checks of validateArgs' secret part, shared by the Jira connectors
JiraSecretChecks ==
    << Check({"secret.username"}, "Secret is missing the 'username' field."),
       Check({"secret.password"}, "Secret is missing the 'password' field."),
       Check({"secret.domain"}, "Secret is missing the 'domain' field.") >>

ServiceNowSecretChecks ==
    << Check({"secret.username"}, "Secret is missing the 'username' field."),
       Check({"secret.password"}, "Secret is missing the 'password' field."),
       Check({"secret.instance"}, "Secret is missing the 'instance' field.") >>

SecretCheck == Check({"secret"}, "Secret not defined.")
StoreCheck(c) == Check({StoreField(c)}, "Context store not defined.")
StopOnErrorCheck == Check({"stopOnError"}, "Stop on error flag not defined.")
TableCheck == Check({"tableName"}, "Table name not defined.")
DataCheck == Check({"data"}, "Data to post not defined.")
SysIdCheck == Check({"sysId"}, "Sys Id not defined.")
KeySecretCheck == Check({"secret", "secret.key"}, "Secret not defined or invalid.")
TextCheck == Check({"text"}, "No text defined.")

\* the validation statements of each connector, in source order
Checks(c) ==
    CASE c = "createJiraTicket" ->
            << SecretCheck,
               Check({"summary"}, "Summary not defined."),
               Check({"projectId"}, "Project Id not defined."),
               Check({"epicname"}, "Epicname not defined."),
               Check({"description"}, "Description not defined."),
               StoreCheck(c), StopOnErrorCheck >> \o JiraSecretChecks
      [] c = "extractTicket" -> << StoreCheck(c), StopOnErrorCheck >>
      [] c \in JiraFetchConnectors ->
            << SecretCheck,
               Check({"ticket"}, "No ticket defined. Please define a ticket like AB-1234."),
               StoreCheck(c), StopOnErrorCheck >> \o JiraSecretChecks
      [] c = "GetEntity" ->
            << Check({"secret", "secret.api_key"}, "Secret not defined or invalid."),
               Check({"entity"}, "No entity defined."),
               Check({"api_version"}, "No version defined.") >>
      [] c = "GETFromTable" ->
            << SecretCheck, TableCheck, StoreCheck(c), StopOnErrorCheck >> \o ServiceNowSecretChecks
      [] c = "POSTToTable" ->
            << SecretCheck, TableCheck, DataCheck, StoreCheck(c), StopOnErrorCheck >>
                \o ServiceNowSecretChecks
      [] c = "PatchRecordInTable" ->
            << SecretCheck, TableCheck, DataCheck, SysIdCheck, StoreCheck(c), StopOnErrorCheck >>
                \o ServiceNowSecretChecks
      [] c = "DeleteFromTable" ->
            << SecretCheck, TableCheck, SysIdCheck, StoreCheck(c), StopOnErrorCheck >>
                \o ServiceNowSecretChecks
      [] c = "GETAttachments" ->
            << SecretCheck, StoreCheck(c), StopOnErrorCheck >> \o ServiceNowSecretChecks
      [] c \in {"GETAttachmentById", "DeleteAttachment"} ->
            << SecretCheck, SysIdCheck, StoreCheck(c), StopOnErrorCheck >> \o ServiceNowSecretChecks
      [] c = "POSTAttachment" ->
            << SecretCheck, TableCheck,
               Check({"tableSysId"}, "Table sys Id not defined."),
               Check({"fileName"}, "File name not defined."),
               Check({"fileLocation"}, "File location not defined."),
               StoreCheck(c), StopOnErrorCheck >> \o ServiceNowSecretChecks
      [] c \in AzureConnectors -> << KeySecretCheck, TextCheck >>
      [] c = "bingWebSearch" -> << KeySecretCheck, Check({"query"}, "No query defined.") >>
      [] c = "bingNewsSearch" -> << KeySecretCheck, Check({"term"}, "No news term defined.") >>
      [] c = "bingImageSearch" -> << KeySecretCheck, Check({"term"}, "No image term defined.") >>

\* the Jira and ServiceNow connectors throw an Error; the others return
\* Promise.reject(<string>)
ValidationError(c, msg) ==
    IF c \in JiraConnectors \cup ServiceNowConnectors THEN JsError(Str(msg)) ELSE Str(msg)

\* whether field f is missing (falsy) in the arguments a; stopOnError is
\* tested with === undefined
IsMissing(a, f) ==
    IF f = "stopOnError" THEN a.stopOnError = "undefined" ELSE f \in a.missing

Fails(a, check) == \E f \in check.fields : IsMissing(a, f)

\* index of the first validation statement that fails, 0 when none does
FirstFailing(c, a) ==
    LET failing == {i \in 1..Len(Checks(c)) : Fails(a, Checks(c)[i])}
    IN  IF failing = {} THEN 0 ELSE CHOOSE i \in failing : \A j \in failing : i <= j

Valid(c, a) == FirstFailing(c, a) = 0

\* the boolean arguments as the code tests them
StopOnError(a) == a.stopOnError = "true"
WriteToContext(a) == a.writeToContext = "true"

\* the key a write to the store location uses: an absent store argument is
\* the property name "undefined"
StoreKey(c, a) == IF StoreField(c) \in a.missing THEN "undefined" ELSE a.store

----------------------------------------------------------------------------
(* The flow collaborator and the promise *)

\* store names a flow author may choose
StoreNames == {"result", "other"}
\* property names of the context and input maps
Keys == StoreNames \cup {"undefined"}

Pending == [state |-> "pending", value |-> Undefined]

\* the flow state a handler acts on, as one record
Flow ==
    [context |-> context, inputMap |-> inputMap, writes |-> writes, log |-> log,
     outputs |-> outputs, requests |-> requests, detached |-> detached, promise |-> promise]

\* one write, with the state the promise was in when the write was made
Write(dest, key, value, state) ==
    [dest |-> dest, key |-> key, value |-> value, promise |-> state]

\* addToContext keeping what the key held before next to the new value
addToContext_Merge(e, key, value) ==
    LET merged == IF e.context[key] = Undefined THEN value ELSE Arr(<< e.context[key], value >>)
    IN  [e EXCEPT !.context[key] = merged,
                  !.writes = Append(@, Write("context", key, merged, e.promise.state))]

\* input.actions.addToContext(key, value, 'simple')
addToContext(e, key, value) ==
    [e EXCEPT !.context[key] = value,
              !.writes = Append(@, Write("context", key, value, e.promise.state))]

\* input.context.getFullContext()[key] = value
setFullContext(e, key, value) ==
    [e EXCEPT !.context[key] = value,
              !.writes = Append(@, Write("context", key, value, e.promise.state))]

\* input.input[key] = value
setInput(e, key, value) ==
    [e EXCEPT !.inputMap[key] = value,
              !.writes = Append(@, Write("input", key, value, e.promise.state))]

\* writeResult writing into the input map whatever the flag
writeResult_Input(e, a, key, value) == setInput(e, key, value)

\* if (args.writeToContext) input.context.getFullContext()[args.store] = result;
\* else input.input[args.store] = result;
writeResult(e, a, key, value) ==
    IF WriteToContext(a) THEN setFullContext(e, key, value) ELSE setInput(e, key, value)

\* input.actions.log(level, message)
logMessage(e, level, message) ==
    [e EXCEPT !.log = Append(@, [level |-> level, message |-> message])]

\* input.actions.output(text, data)
output(e, text) == [e EXCEPT !.outputs = Append(@, text)]

\* issuing one outbound request
sendRequest(e, req) == [e EXCEPT !.requests = Append(@, req)]

\* resolve(input): settles the promise unless it is settled already
resolve(e) ==
    IF e.promise.state = "pending"
    THEN [e EXCEPT !.promise = [state |-> "resolved", value |-> InputRef]]
    ELSE e

\* reject(reason): settles the promise unless it is settled already
reject(e, reason) ==
    IF e.promise.state = "pending"
    THEN [e EXCEPT !.promise = [state |-> "rejected", value |-> reason]]
    ELSE e

\* Promise.reject(reason) as a statement: a rejected promise nobody holds
dropRejection(e, reason) == [e EXCEPT !.detached = Append(@, reason)]

\* the handler's effect on the flow state becomes the next state
Commit(e) ==
    /\ context' = e.context
    /\ inputMap' = e.inputMap
    /\ writes' = e.writes
    /\ log' = e.log
    /\ outputs' = e.outputs
    /\ requests' = e.requests
    /\ detached' = e.detached
    /\ promise' = e.promise

----------------------------------------------------------------------------
(* Inputs of an invocation *)

\* characters of the flow's input text: an uppercase letter, a lowercase
\* letter, the hyphen and a digit
Alphabet == {"A", "b", "-", "7"}

RECURSIVE TextsOfLen(_)
TextsOfLen(n) ==
    IF n = 0 THEN {<<>>}
    ELSE {Append(t, ch) : t \in TextsOfLen(n - 1), ch \in Alphabet}

Texts == UNION {TextsOfLen(n) : n \in 0..MaxTextLen}

\* a string value given by its characters
Text(chars) == [tag |-> "text", chars |-> chars]

\* sets of required fields an invocation leaves out
MissingSets(c) == {m \in SUBSET RequiredFields(c) : Cardinality(m) <= MaxMissing}

\* ids of table rows and attachments
SysIds == {"4f2a", "9c1b"}
\* the connectors that take a sysId
SysIdConnectors == {"PatchRecordInTable", "DeleteFromTable", "GETAttachmentById", "DeleteAttachment"}

\* values of GETFromTable's optional arguments: left out, left blank, given
Limits == {Undefined, Num(0), Num(10)}
UserNames == {Undefined, Str(""), Str("jane")}

\* the arguments of one invocation of connector c; hasText and inputText are
\* input.input.text, which only extractTicket reads; urlOk is whether
\* fileLocation is a URL https.get accepts, which only POSTAttachment reads;
\* limit, caller_id and assigned_to are GETFromTable's optional arguments;
\* sysId is the id the caller gave, read when it is not among the missing
ArgsOf(c) ==
    LET with(text, texts) ==
            [missing : MissingSets(c),
             stopOnError : {"true", "false", "undefined"},
             writeToContext : IF c \in AzureConnectors THEN {"true", "false"} ELSE {"false"},
             store : StoreNames,
             hasText : {text},
             inputText : texts,
             urlOk : IF c = "POSTAttachment" THEN BOOLEAN ELSE {TRUE},
             limit : IF c = "GETFromTable" THEN Limits ELSE {Undefined},
             caller_id : IF c = "GETFromTable" THEN UserNames ELSE {Undefined},
             assigned_to : IF c = "GETFromTable" THEN UserNames ELSE {Undefined},
             sysId : IF c \in SysIdConnectors THEN SysIds ELSE {"none"}]
    IN  IF c = "extractTicket"
        THEN with(FALSE, {<<>>}) \cup with(TRUE, Texts)
        ELSE with(FALSE, {<<>>})

\* the arguments two concurrent conversations invoke a connector with: every
\* required field given, one store name
ConcurrentArgs(c) ==
    {a \in ArgsOf(c) :
        /\ a.missing = {}
        /\ a.stopOnError # "undefined"
        /\ a.store = "result"
        /\ c = "GETFromTable" =>
               (a.limit = Num(10) /\ a.caller_id = Undefined /\ a.assigned_to = Str("jane"))}

\* the arguments an invocation of c may be made with: a second invocation of
\* a conversation repeats the first one's connector and arguments
Candidates(c) ==
    IF round = 2 THEN (IF conn = c THEN {args} ELSE {})
    ELSE IF focus # 0 THEN ConcurrentArgs(c)
    ELSE ArgsOf(c)

NoArgs ==
    [missing |-> {}, stopOnError |-> "undefined", writeToContext |-> "false",
     store |-> "result", hasText |-> FALSE, inputText |-> <<>>, urlOk |-> TRUE,
     limit |-> Undefined, caller_id |-> Undefined, assigned_to |-> Undefined,
     sysId |-> "none"]

----------------------------------------------------------------------------
(* extractTicket's pattern /[a-zA-Z]+-\d+/g *)

\* the class [A-Z] over the alphabet: a pattern of uppercase prefixes only
Letters_Upper == {"A"}

\* [a-zA-Z] and \d over the alphabet
Letters == {"A", "b"}
Digits == {"7"}

\* last index of the longest run of characters of class S that starts at i
\* (i - 1 when t[i] is not in S): the greedy + of the pattern
RunEnd(t, i, S) ==
    LET ends == {k \in (i - 1)..Len(t) : \A j \in i..k : t[j] \in S}
    IN  CHOOSE k \in ends : \A k2 \in ends : k2 <= k

\* end index of the match of the pattern that starts at i, 0 when there is none
MatchEnd(t, i) ==
    LET l == RunEnd(t, i, Letters)
        d == RunEnd(t, l + 2, Digits)
    IN  IF l >= i /\ l + 1 <= Len(t) /\ t[l + 1] = "-" /\ d >= l + 2 THEN d ELSE 0

\* Match reading the last match of the text instead of match[0]
Match_Last(t) ==
    LET starts == {i \in 1..Len(t) : MatchEnd(t, i) # 0}
        last == CHOOSE i \in starts : \A j \in starts : j <= i
    IN  IF starts = {} THEN <<>> ELSE << SubSeq(t, last, MatchEnd(t, last)) >>

\* text.match(pattern) as far as the code reads it: <<match[0]>>, the leftmost
\* match, or <<>> for null
Match(t) ==
    LET starts == {i \in 1..Len(t) : MatchEnd(t, i) # 0}
        first == CHOOSE i \in starts : \A j \in starts : i <= j
    IN  IF starts = {} THEN <<>> ELSE << SubSeq(t, first, MatchEnd(t, first)) >>

----------------------------------------------------------------------------
(* Outbound requests *)

Request(method, target) == [method |-> method, target |-> target]

\* the request a connector sends to its target API
ApiRequest(c) ==
    CASE c = "createJiraTicket" -> Request("POST", "jira issue.createIssue")
      [] c \in JiraFetchConnectors -> Request("GET", "jira issue.getIssue")
      [] c = "GetEntity" -> Request("GET", "api.yext.com/v2/accounts/me/{entity}")
      [] c = "GETFromTable" -> Request("GET", "{instance}/api/now/table/{tableName}")
      [] c = "POSTToTable" -> Request("POST", "{instance}/api/now/table/{tableName}")
      [] c = "PatchRecordInTable" -> Request("PATCH", "{instance}/api/now/table/{tableName}/{sysId}")
      [] c = "DeleteFromTable" -> Request("DELETE", "{instance}/api/now/table/{tableName}/{sysId}")
      [] c = "GETAttachments" -> Request("GET", "{instance}/api/now/attachment")
      [] c = "GETAttachmentById" -> Request("GET", "{instance}/api/now/attachment/{sysId}")
      [] c = "POSTAttachment" -> Request("POST", "{instance}/api/now/attachment/file")
      [] c = "DeleteAttachment" -> Request("DELETE", "{instance}/api/now/attachment/{sysId}")
      [] c = "spellCheck" -> Request("POST", "api.cognitive.microsoft.com/bing/v7.0/spellcheck")
      [] c = "recognizeLanguage" -> Request("POST", "westus.api.cognitive.microsoft.com/text/analytics/v2.0/languages")
      [] c = "extractKeyphrases" -> Request("POST", "westus.api.cognitive.microsoft.com/text/analytics/v2.0/keyPhrases")
      [] c = "namedEntityRecognition" -> Request("POST", "westus.api.cognitive.microsoft.com/text/analytics/v2.1-preview/entities")
      [] c = "textTranslator" -> Request("POST", "api.cognitive.microsofttranslator.com/translate")
      [] c = "bingWebSearch" -> Request("GET", "api.cognitive.microsoft.com/bing/v7.0/search")
      [] c = "bingNewsSearch" -> Request("GET", "api.cognitive.microsoft.com/bing/v7.0/news/search")
      [] c = "bingImageSearch" -> Request("GET", "api.cognitive.microsoft.com/bing/v7.0/images/search")

\* the options.params of GETFromTable before assigned_to is looked at
TableParams(a) ==
    [sysparm_limit |-> a.limit,
     caller_id |-> a.caller_id,
     sysparm_query |-> Str("ORDERBYDESCnumber"),
     sysparm_display_value |-> [tag |-> "boolean", b |-> TRUE]]

\* TableRequest setting params.assigned_to whether or not it was given
TableRequest_Always(a) ==
    [method |-> "GET", target |-> "{instance}/api/now/table/{tableName}",
     params |-> [sysparm_limit |-> a.limit,
                 caller_id |-> a.caller_id,
                 sysparm_query |-> Str("ORDERBYDESCnumber"),
                 sysparm_display_value |-> [tag |-> "boolean", b |-> TRUE],
                 assigned_to |-> a.assigned_to]]

\* GETFromTable's request: params.assigned_to is set only when assigned_to is truthy
TableRequest(a) ==
    [method |-> "GET", target |-> "{instance}/api/now/table/{tableName}",
     params |-> IF Truthy(a.assigned_to)
                THEN [sysparm_limit |-> a.limit,
                      caller_id |-> a.caller_id,
                      sysparm_query |-> Str("ORDERBYDESCnumber"),
                      sysparm_display_value |-> [tag |-> "boolean", b |-> TRUE],
                      assigned_to |-> a.assigned_to]
                ELSE TableParams(a)]

\* POSTAttachment's download of the file: http.get(fileLocation, ...)
FileRequest == Request("GET", "{fileLocation}")

----------------------------------------------------------------------------
(* Invoking a connector *)

\* FailValidation leaving a log entry for the failed check
FailValidation_Logged(c, a) ==
    /\ pc' = "done"
    /\ Commit(reject(logMessage(Flow, "error", Checks(c)[FirstFailing(c, a)].msg),
                     ValidationError(c, Checks(c)[FirstFailing(c, a)].msg)))

\* the validation statements reject the call with the first failing check's
\* message; nothing else has happened by then
FailValidation(c, a) ==
    /\ pc' = "done"
    /\ Commit(reject(Flow, ValidationError(c, Checks(c)[FirstFailing(c, a)].msg)))

\* a connector whose body, once validation has passed, sends its request to
\* the target API and waits for the transport
Call(c) ==
    /\ pc = "idle"
    /\ \E a \in Candidates(c) :
        /\ conn' = c
        /\ args' = a
        /\ IF Valid(c, a)
           THEN /\ pc' = "awaiting"
                /\ Commit(sendRequest(Flow, ApiRequest(c)))
           ELSE FailValidation(c, a)
    /\ UNCHANGED <<delivered, body>>
    /\ UNCHANGED engine

createJiraTicket == Call("createJiraTicket")
getTicketStatus == Call("getTicketStatus")
getTicketAssignee == Call("getTicketAssignee")
getTicketPriority == Call("getTicketPriority")
getTicketResolution == Call("getTicketResolution")
getTicketReporter == Call("getTicketReporter")
getTicketComments == Call("getTicketComments")
getTicketWatchers == Call("getTicketWatchers")
getTicketSummary == Call("getTicketSummary")
getAllTicketInfo == Call("getAllTicketInfo")
POSTToTable == Call("POSTToTable")
PatchRecordInTable == Call("PatchRecordInTable")
DeleteFromTable == Call("DeleteFromTable")
GETAttachments == Call("GETAttachments")
GETAttachmentById == Call("GETAttachmentById")
DeleteAttachment == Call("DeleteAttachment")
spellCheck == Call("spellCheck")
recognizeLanguage == Call("recognizeLanguage")
extractKeyphrases == Call("extractKeyphrases")
namedEntityRecognition == Call("namedEntityRecognition")
textTranslator == Call("textTranslator")
bingWebSearch == Call("bingWebSearch")
bingNewsSearch == Call("bingNewsSearch")
bingImageSearch == Call("bingImageSearch")

\* the body of extractTicket after validation: no request, one regex match
ExtractTicketBody(e, a) ==
    LET store == StoreKey("extractTicket", a)
        match == Match(a.inputText)
        \* input.input.text.match throws a TypeError when the text is undefined
        error == JsError(Str("Cannot read property 'match' of undefined"))
    IN  IF a.hasText
        THEN IF match # <<>>
             THEN resolve(addToContext(e, store, Text(match[1])))
             ELSE resolve(addToContext(e, store, Str("No ticket found")))
        ELSE IF StopOnError(a)
             THEN reject(e, JsError(error.message))
             ELSE resolve(addToContext(e, store, ErrObj(error.message)))

extractTicket ==
    /\ pc = "idle"
    /\ \E a \in Candidates("extractTicket") :
        /\ conn' = "extractTicket"
        /\ args' = a
        /\ IF Valid("extractTicket", a)
           THEN /\ pc' = "done"
                /\ Commit(ExtractTicketBody(Flow, a))
           ELSE FailValidation("extractTicket", a)
    /\ UNCHANGED <<delivered, body>>
    /\ UNCHANGED engine

\* GETFromTable builds its query parameters from the optional arguments
GETFromTable ==
    /\ pc = "idle"
    /\ \E a \in Candidates("GETFromTable") :
        /\ conn' = "GETFromTable"
        /\ args' = a
        /\ IF Valid("GETFromTable", a)
           THEN /\ pc' = "awaiting"
                /\ Commit(sendRequest(Flow, TableRequest(a)))
           ELSE FailValidation("GETFromTable", a)
    /\ UNCHANGED <<delivered, body>>
    /\ UNCHANGED engine

\* GetEntity emits the entity name to the conversation before its request
GetEntity ==
    /\ pc = "idle"
    /\ \E a \in Candidates("GetEntity") :
        /\ conn' = "GetEntity"
        /\ args' = a
        /\ IF Valid("GetEntity", a)
           THEN /\ pc' = "awaiting"
                /\ Commit(sendRequest(output(Flow, "args.entity.toLowerCase()"), ApiRequest("GetEntity")))
           ELSE FailValidation("GetEntity", a)
    /\ UNCHANGED <<delivered, body>>
    /\ UNCHANGED engine

----------------------------------------------------------------------------
(* What the Jira client hands to its callback *)

\* error payloads of the Jira REST API, and a transport failure
JiraErrors ==
    { [tag |-> "object", errorMessages |-> Arr(<< Str("Issue Does Not Exist") >>)],
      [tag |-> "object", errorMessages |-> Arr(<< Str("first"), Str("second") >>)],
      [tag |-> "object", errorMessages |-> Arr(<< >>)],
      [tag |-> "object", errorMessages |-> Str("not a list"), errorMessage |-> Str("single message")],
      [tag |-> "object", errorMessage |-> Str("single message")],
      [tag |-> "object", errorMessages |-> Str("not a list")],
      JsError(Str("connect ECONNREFUSED")) }

\* issues the client may deliver: none, an empty object, and issues with
\* more or fewer fields
Issues ==
    { Undefined, Null, EmptyObj,
      [tag |-> "object", key |-> Str("T-1")],
      [tag |-> "object", key |-> Str("T-1"),
       fields |-> [tag |-> "object",
                   status |-> [tag |-> "object", name |-> Str("Open")],
                   assignee |-> [tag |-> "object", emailAddress |-> Str("a@b.com")]]],
      \* an unassigned, unresolved issue: Jira sends null for both fields
      [tag |-> "object", key |-> Str("T-2"),
       fields |-> [tag |-> "object",
                   issuetype |-> [tag |-> "object", name |-> Str("Bug")],
                   status |-> [tag |-> "object", name |-> Str("Open")],
                   assignee |-> Null,
                   resolution |-> Null,
                   priority |-> [tag |-> "object", name |-> Str("High")],
                   watches |-> [tag |-> "object", watchCount |-> Num(2)]]],
      \* an issue with every field the connectors read
      [tag |-> "object", key |-> Str("T-3"),
       fields |-> [tag |-> "object",
                   issuetype |-> [tag |-> "object", name |-> Str("Task")],
                   project |-> [tag |-> "object", name |-> Str("Support")],
                   status |-> [tag |-> "object", name |-> Str("Done")],
                   assignee |-> [tag |-> "object", emailAddress |-> Str("a@b.com")],
                   reporter |-> [tag |-> "object", emailAddress |-> Str("r@b.com")],
                   resolution |-> [tag |-> "object", name |-> Str("Fixed")],
                   priority |-> [tag |-> "object", name |-> Str("Low")],
                   comment |-> [tag |-> "object", comments |-> Arr(<< Str("a comment") >>)],
                   watches |-> [tag |-> "object", watchCount |-> Num(1)]]],
      \* a payload without key
      [tag |-> "object",
       fields |-> [tag |-> "object",
                   project |-> [tag |-> "object", name |-> Str("Support")],
                   reporter |-> [tag |-> "object"]]] }

\* callback(error, issue): an error without issue, or no error and an issue
JiraOutcomes ==
    {[error |-> err, issue |-> Undefined] : err \in JiraErrors}
        \cup {[error |-> Null, issue |-> i] : i \in Issues}

IsArray(v) == v.tag = "array"
\* arr[0]
First(arr) == IF Len(arr.items) > 0 THEN arr.items[1] ELSE Undefined

\* Array.isArray(error.errorMessages) ? error.errorMessages[0] : error.errorMessage
ExtractMessage(error) ==
    IF IsArray(Get(error, "errorMessages"))
    THEN First(Get(error, "errorMessages"))
    ELSE Get(error, "errorMessage")

\* `Error: ${errorMessage}. Please check your Cognigy Secret, too.`
FullMessage(errorMessage) ==
    [tag |-> "string", prefix |-> "Error: ", inner |-> errorMessage,
     suffix |-> ". Please check your Cognigy Secret, too."]

\* the TypeError of reading a property of undefined or null
TypeError == JsError(Str("Cannot read property of undefined"))

----------------------------------------------------------------------------
(* The Jira callbacks *)

\* createJiraTicket's callback of jira.issue.createIssue
CreateIssueHandler(e, a, error, issue) ==
    LET store == StoreKey("createJiraTicket", a)
        errorMessage == ExtractMessage(error)
        \* the statements after the if (error) block
        after(f) == resolve(addToContext(f, store, issue))
    IN  IF Truthy(error)
        THEN IF StopOnError(a)
             THEN reject(e, FullMessage(errorMessage))
             ELSE after(resolve(addToContext(e, store, ErrObj(errorMessage))))
        ELSE after(e)

\* FieldResult storing the field under its own name
FieldResult_Named(issue, fieldName) ==
    [tag |-> "object", ticket |-> Or(Get(issue, "key"), Null)]
        @@ (fieldName :> Or(And(Get(issue, "fields"), Get(Get(issue, "fields"), fieldName)), Null))

\* the object processJiraIssue stores on success
FieldResult(issue, fieldName) ==
    [tag |-> "object",
     ticket |-> Or(Get(issue, "key"), Null),
     status |-> Or(And(Get(issue, "fields"), Get(Get(issue, "fields"), fieldName)), Null)]

\* processJiraIssue's callback of jira.issue.getIssue
ProcessJiraIssueHandler(e, c, a, error, issue) ==
    LET store == StoreKey(c, a)
        errorMessage == ExtractMessage(error)
    IN  IF Truthy(And(error, Get(error, "errorMessages")))
        THEN IF StopOnError(a)
             THEN reject(e, errorMessage)
             ELSE resolve(addToContext(e, store, ErrObj(errorMessage)))
        ELSE IF Truthy(error)
        THEN reject(logMessage(e, "error", "JIRA API has changed"),
                    Str("Error while getting Jira issue."))
        ELSE IF ~Truthy(issue)
        \* reject, then issue.key throws and the catch block rejects again
        THEN reject(reject(e, Str("Error while getting Jira issue. No issue was found")),
                    TypeError)
        ELSE resolve(addToContext(e, store, FieldResult(issue, FieldNameOf(c))))

\* a.b.c || null, with the guards the code writes: a && a.b && a.b.c || null
Path2(issue, f, g) ==
    Or(And(And(Get(issue, "fields"), Get(Get(issue, "fields"), f)),
           Get(Get(Get(issue, "fields"), f), g)), Null)

\* Summary with the assignee and the reporter taken from each other's field
Summary_Swapped(issue) ==
    [tag |-> "object",
     ticket |-> Or(Get(issue, "key"), Null),
     type |-> Path2(issue, "issuetype", "name"),
     project |-> Path2(issue, "project", "name"),
     status |-> Path2(issue, "status", "name"),
     assignedTo |-> Path2(issue, "reporter", "emailAddress"),
     reportedBy |-> Path2(issue, "assignee", "emailAddress"),
     resolution |-> Path2(issue, "resolution", "name"),
     comments |-> Path2(issue, "comment", "comments")]

\* the object getTicketSummary builds from an issue
Summary(issue) ==
    [tag |-> "object",
     ticket |-> Or(Get(issue, "key"), Null),
     type |-> Path2(issue, "issuetype", "name"),
     project |-> Path2(issue, "project", "name"),
     status |-> Path2(issue, "status", "name"),
     assignedTo |-> Path2(issue, "assignee", "emailAddress"),
     reportedBy |-> Path2(issue, "reporter", "emailAddress"),
     resolution |-> Path2(issue, "resolution", "name"),
     comments |-> Path2(issue, "comment", "comments")]

\* getTicketSummary's callback of jira.issue.getIssue
TicketSummaryHandler(e, a, error, issue) ==
    LET store == StoreKey("getTicketSummary", a)
        errorMessage == ExtractMessage(error)
        \* if (!issue || typeof issue !== "object" || Object.keys(issue).length === 0)
        empty == ~Truthy(issue) \/ issue.tag # "object" \/ NoKeys(issue)
        e1 == IF empty
              THEN dropRejection(e, Str("Error while getting Jira issue. No issue was found"))
              ELSE e
    IN  IF Truthy(And(error, Get(error, "errorMessages")))
        THEN IF StopOnError(a)
             THEN reject(e, errorMessage)
             ELSE resolve(addToContext(e, store, ErrObj(errorMessage)))
        ELSE IF Truthy(error)
        THEN reject(logMessage(e, "error", "JIRA API has changed"),
                    Str("Error while getting Jira issue."))
        ELSE IF ~Truthy(issue)
        \* issue.key throws inside the try block: result stays {}
        THEN resolve(addToContext(
                 dropRejection(
                     logMessage(e1, "Error while getting ticket summary. Error was: TypeError", "undefined"),
                     Str("Error while getting ticket summary")),
                 store, EmptyObj))
        ELSE resolve(addToContext(e1, store, Summary(issue)))

\* AllTicketInfoHandler with the rejection of a missing issue built and dropped,
\* as getTicketSummary does
AllTicketInfoHandler_Dropped(e, a, error, issue) ==
    LET store == StoreKey("getAllTicketInfo", a)
        errorMessage == ExtractMessage(error)
        e1 == IF ~Truthy(issue)
              THEN dropRejection(e, Str("Error while getting Jira issue. No issue was found"))
              ELSE e
    IN  IF Truthy(And(error, Get(error, "errorMessages")))
        THEN IF StopOnError(a)
             THEN reject(e, errorMessage)
             ELSE resolve(addToContext(e, store, ErrObj(errorMessage)))
        ELSE IF Truthy(error)
        THEN reject(logMessage(e, "error", "JIRA API has changed"),
                    Str("Error while getting Jira issue."))
        ELSE resolve(addToContext(e1, store, issue))

\* getAllTicketInfo's callback of jira.issue.getIssue
AllTicketInfoHandler(e, a, error, issue) ==
    LET store == StoreKey("getAllTicketInfo", a)
        errorMessage == ExtractMessage(error)
        e1 == IF ~Truthy(issue)
              THEN reject(e, Str("Error while getting Jira issue. No issue was found"))
              ELSE e
    IN  IF Truthy(And(error, Get(error, "errorMessages")))
        THEN IF StopOnError(a)
             THEN reject(e, errorMessage)
             ELSE resolve(addToContext(e, store, ErrObj(errorMessage)))
        ELSE IF Truthy(error)
        THEN reject(logMessage(e, "error", "JIRA API has changed"),
                    Str("Error while getting Jira issue."))
        ELSE resolve(addToContext(e1, store, issue))

\* the Jira client calls the connector's callback with its outcome
JiraCallback ==
    /\ pc = "awaiting"
    /\ conn \in JiraConnectors
    /\ \E out \in JiraOutcomes :
        /\ delivered' = [kind |-> "jira", error |-> out.error, issue |-> out.issue]
        /\ Commit(CASE conn = "createJiraTicket" ->
                        CreateIssueHandler(Flow, args, out.error, out.issue)
                 [] conn = "getTicketSummary" ->
                        TicketSummaryHandler(Flow, args, out.error, out.issue)
                 [] conn = "getAllTicketInfo" ->
                        AllTicketInfoHandler(Flow, args, out.error, out.issue)
                 [] OTHER ->
                        ProcessJiraIssueHandler(Flow, conn, args, out.error, out.issue))
    /\ pc' = "done"
    /\ UNCHANGED <<conn, args, body>>
    /\ UNCHANGED engine

----------------------------------------------------------------------------
(* The axios connectors: ServiceNow and Yext *)

\* error.message of a request axios rejects
TransportMessages == {"Network Error", "Request failed with status code 404"}

\* what axios settles a request with: a response, or a rejection with an Error
AxiosOutcomes ==
    {[ok |-> TRUE, data |-> d, error |-> Null] :
        d \in {[tag |-> "object", result |-> Arr(<< >>)],
               [tag |-> "object", result |-> Arr(<< Str("row") >>)],
               EmptyObj}}
        \cup {[ok |-> FALSE, data |-> Undefined, error |-> JsError(Str(m))] : m \in TransportMessages}

\* `succefully deleted entry with id: ${sysId}` and its attachment twin
Confirmation(c, sysId) ==
    [tag |-> "string",
     prefix |-> IF c = "DeleteFromTable" THEN "succefully deleted entry with id: "
                ELSE "succefully deleted attachment with id: ",
     inner |-> sysId]

\* ServiceNowResult storing the response body after a delete as well
ServiceNowResult_Body(c, a, data) == Get(data, "result")

\* the value a ServiceNow connector stores on success
ServiceNowResult(c, a, data) ==
    IF c \in {"DeleteFromTable", "DeleteAttachment"}
    THEN Confirmation(c, a.sysId)
    ELSE Get(data, "result")

\* ServiceNowHandler with a retry: a failed request is sent once more
ServiceNowHandler_Retry(e, c, a, out) ==
    LET store == StoreKey(c, a)
    IN  IF out.ok
        THEN resolve(addToContext(e, store, ServiceNowResult(c, a, out.data)))
        ELSE IF StopOnError(a)
             THEN reject(sendRequest(e, ApiRequest(c)), JsError(out.error.message))
             ELSE resolve(addToContext(sendRequest(e, ApiRequest(c)), store, ErrObj(out.error.message)))

\* the try/catch around the awaited axios call, and `return input`
ServiceNowHandler(e, c, a, out) ==
    LET store == StoreKey(c, a)
    IN  IF out.ok
        THEN resolve(addToContext(e, store, ServiceNowResult(c, a, out.data)))
        ELSE IF StopOnError(a)
             THEN reject(e, JsError(out.error.message))
             ELSE resolve(addToContext(e, store, ErrObj(out.error.message)))

\* the TypeError https.get throws for a fileLocation that is no https URL
InvalidUrl == [ok |-> FALSE, data |-> Undefined, error |-> JsError(Str("Invalid URL"))]

\* POSTAttachment first downloads the file from fileLocation; https.get throws
\* inside the try block when fileLocation is not a URL it accepts
POSTAttachment ==
    /\ pc = "idle"
    /\ \E a \in Candidates("POSTAttachment") :
        /\ conn' = "POSTAttachment"
        /\ args' = a
        /\ IF ~Valid("POSTAttachment", a)
           THEN FailValidation("POSTAttachment", a)
           ELSE IF a.urlOk
           THEN /\ pc' = "awaitingFile"
                /\ Commit(sendRequest(Flow, FileRequest))
           ELSE /\ pc' = "done"
                /\ Commit(ServiceNowHandler(Flow, "POSTAttachment", a, InvalidUrl))
    /\ UNCHANGED <<delivered, body>>
    /\ UNCHANGED engine

\* the awaited axios call of a ServiceNow connector settles
ServiceNowSettled ==
    /\ pc = "awaiting"
    /\ conn \in ServiceNowConnectors
    /\ \E out \in AxiosOutcomes :
        /\ delivered' = [kind |-> "axios", ok |-> out.ok, data |-> out.data, error |-> out.error]
        /\ Commit(ServiceNowHandler(Flow, conn, args, out))
    /\ pc' = "done"
    /\ UNCHANGED <<conn, args, body>>
    /\ UNCHANGED engine

\* POSTAttachment: the download's response arrives and the file is posted
FileResponse ==
    /\ pc = "awaitingFile"
    /\ Commit(sendRequest(Flow, ApiRequest("POSTAttachment")))
    /\ pc' = "awaiting"
    /\ delivered' = [kind |-> "fileResponse"]
    /\ UNCHANGED <<conn, args, body>>
    /\ UNCHANGED engine

\* POSTAttachment: the download fails; the request has no 'error' listener,
\* the error is thrown from the event loop and the awaited promise stays pending
FileRequestError ==
    /\ pc = "awaitingFile"
    /\ pc' = "uncaught"
    /\ delivered' = [kind |-> "fileRequestError"]
    /\ UNCHANGED <<conn, args, promise, context, inputMap, writes, log, outputs, requests, detached, body>>
    /\ UNCHANGED engine

\* GetEntityHandler resolving before it writes the response
GetEntityHandler_ResolveFirst(e, a, out) ==
    IF out.ok
    THEN setFullContext(resolve(e), StoreKey("GetEntity", a), out.data)
    ELSE IF StopOnError(a)
         THEN reject(e, out.error.message)
         ELSE resolve(e)

\* the .then and .catch handlers of GetEntity's axios.get
GetEntityHandler(e, a, out) ==
    IF out.ok
    THEN resolve(setFullContext(e, StoreKey("GetEntity", a), out.data))
    ELSE IF StopOnError(a)
         THEN reject(e, out.error.message)
         \* result = { "error": error.message } is assigned and never stored
         ELSE resolve(e)

GetEntitySettled ==
    /\ pc = "awaiting"
    /\ conn = "GetEntity"
    /\ \E out \in AxiosOutcomes :
        /\ delivered' = [kind |-> "axios", ok |-> out.ok, data |-> out.data, error |-> out.error]
        /\ Commit(GetEntityHandler(Flow, args, out))
    /\ pc' = "done"
    /\ UNCHANGED <<conn, args, body>>
    /\ UNCHANGED engine

----------------------------------------------------------------------------
(* The https connectors: cognitive text (but textTranslator) and Bing *)

HttpsConnectors == HttpsTextConnectors \cup BingConnectors

\* connectors whose response handler registers an 'error' listener
ErrorListeners == HttpsTextConnectors \cup {"bingWebSearch"}

\* pieces of a response body
Chunks == {"{", "}", "[]"}

\* whether JSON.parse(body) returns: the bodies "[]" and "{}" are JSON, every
\* other body the chunks make ("", "{", "}{", "[][]", ...) is a SyntaxError
JSONValid(b) == b \in { << "[]" >>, << "{", "}" >> }

\* JSON.parse(body) of a valid body
JSONParse(b) == [tag |-> "json", text |-> b]

\* the stream errors a response may emit
StreamErrors == {JsError(Str("aborted")), JsError(Str("socket hang up"))}

\* the request fails before a response: no 'error' listener is registered on
\* the request, so the error is thrown from the event loop
RequestError ==
    /\ pc = "awaiting"
    /\ conn \in HttpsConnectors
    /\ pc' = "uncaught"
    /\ delivered' = [kind |-> "requestError"]
    /\ UNCHANGED <<conn, args, promise, context, inputMap, writes, log, outputs, requests, detached, body>>
    /\ UNCHANGED engine

\* the response handler runs: body = '' and the listeners are registered
Response ==
    /\ pc = "awaiting"
    /\ conn \in HttpsConnectors
    /\ pc' = "streaming"
    /\ body' = << >>
    /\ delivered' = [kind |-> "response"]
    /\ UNCHANGED <<conn, args, promise, context, inputMap, writes, log, outputs, requests, detached>>
    /\ UNCHANGED engine

\* response.on('data', d => body += d)
Data ==
    /\ pc = "streaming"
    /\ Len(body) < MaxChunks
    /\ \E d \in Chunks : body' = Append(body, d)
    /\ UNCHANGED <<pc, conn, args, promise, context, inputMap, writes, log, outputs, requests, detached, delivered>>
    /\ UNCHANGED engine

\* HttpsWrite writing into the context map whatever the connector and the flag
HttpsWrite_Context(e, c, a, value) == setFullContext(e, StoreKey(c, a), value)

\* where an https connector writes: the cognitive-text ones by writeToContext,
\* the Bing ones into the input map
HttpsWrite(e, c, a, value) ==
    IF c \in BingConnectors
    THEN setInput(e, StoreKey(c, a), value)
    ELSE writeResult(e, a, StoreKey(c, a), value)

\* response.on('end', ...): a body that does not parse throws out of the listener
End ==
    /\ pc = "streaming"
    /\ delivered' = [kind |-> "end"]
    /\ IF JSONValid(body)
       THEN /\ Commit(resolve(HttpsWrite(Flow, conn, args, JSONParse(body))))
            /\ pc' = "done"
       ELSE /\ pc' = "uncaught"
            /\ UNCHANGED <<promise, context, inputMap, writes, log, outputs, requests, detached>>
    /\ UNCHANGED <<conn, args, body>>
    /\ UNCHANGED engine

\* the 'error' listener of the response
StreamErrorHandler(e, c, a, err) ==
    IF StopOnError(a)
    THEN reject(e, err.message)
    ELSE resolve(HttpsWrite(e, c, a, ErrObj(err.message)))

\* the response emits 'error': handled where a listener is registered, thrown
\* from the event loop where none is (bingNewsSearch, bingImageSearch)
StreamError ==
    /\ pc = "streaming"
    /\ \E err \in StreamErrors :
        /\ delivered' = [kind |-> "streamError", error |-> err]
        /\ IF conn \in ErrorListeners
           THEN /\ Commit(StreamErrorHandler(Flow, conn, args, err))
                /\ pc' = "done"
           ELSE /\ pc' = "uncaught"
                /\ UNCHANGED <<promise, context, inputMap, writes, log, outputs, requests, detached>>
    /\ UNCHANGED <<conn, args, body>>
    /\ UNCHANGED engine

----------------------------------------------------------------------------
(* textTranslator, on the request library *)

\* callback(err, res, body) with json: true: an error without body, a parsed
\* body, or the raw text of a body that is not JSON
TranslatorOutcomes ==
    {[err |-> JsError(Str(m)), body |-> Undefined] : m \in TransportMessages}
        \cup {[err |-> Null, body |-> JSONParse(<< "[]" >>)],
              [err |-> Null, body |-> Str("<html>Bad Gateway</html>")]}

\* result = body; the write; resolve(input): err is not read
TranslatorHandler(e, a, err, responseBody) ==
    resolve(writeResult(e, a, StoreKey("textTranslator", a), responseBody))

TranslatorCallback ==
    /\ pc = "awaiting"
    /\ conn = "textTranslator"
    /\ \E out \in TranslatorOutcomes :
        /\ delivered' = [kind |-> "request", err |-> out.err, body |-> out.body]
        /\ Commit(TranslatorHandler(Flow, args, out.err, out.body))
    /\ pc' = "done"
    /\ UNCHANGED <<conn, args, body>>
    /\ UNCHANGED engine

----------------------------------------------------------------------------
(* The specification *)

\* a conversation before its connector is invoked
IdleConversation ==
    [pc |-> "idle", conn |-> "none", args |-> NoArgs, promise |-> Pending,
     context |-> [k \in Keys |-> Undefined], inputMap |-> [k \in Keys |-> Undefined],
     writes |-> << >>, log |-> << >>, outputs |-> << >>, requests |-> << >>,
     detached |-> << >>, delivered |-> [kind |-> "none"], body |-> << >>]

\* the state of the conversation the event loop is running, as one record
Conversation ==
    [pc |-> pc, conn |-> conn, args |-> args, promise |-> promise,
     context |-> context, inputMap |-> inputMap,
     writes |-> writes, log |-> log, outputs |-> outputs, requests |-> requests,
     detached |-> detached, delivered |-> delivered, body |-> body]

\* no first invocation has finished yet
NoRun == [finished |-> FALSE]

InitConversation ==
    /\ pc = "idle"
    /\ conn = "none"
    /\ args = NoArgs
    /\ promise = Pending
    /\ context = [k \in Keys |-> Undefined]
    /\ inputMap = [k \in Keys |-> Undefined]
    /\ writes = << >>
    /\ log = << >>
    /\ outputs = << >>
    /\ requests = << >>
    /\ detached = << >>
    /\ delivered = [kind |-> "none"]
    /\ body = << >>

Init ==
    /\ InitConversation
    /\ round = 1
    /\ firstRun = NoRun
    /\ focus = 0
    /\ other = IdleConversation

Next ==
    \/ createJiraTicket
    \/ extractTicket
    \/ getTicketStatus
    \/ getTicketAssignee
    \/ getTicketPriority
    \/ getTicketResolution
    \/ getTicketReporter
    \/ getTicketComments
    \/ getTicketWatchers
    \/ getTicketSummary
    \/ getAllTicketInfo
    \/ JiraCallback
    \/ GetEntity
    \/ GetEntitySettled
    \/ GETFromTable
    \/ POSTToTable
    \/ PatchRecordInTable
    \/ DeleteFromTable
    \/ GETAttachments
    \/ GETAttachmentById
    \/ POSTAttachment
    \/ DeleteAttachment
    \/ FileResponse
    \/ FileRequestError
    \/ ServiceNowSettled
    \/ spellCheck
    \/ recognizeLanguage
    \/ extractKeyphrases
    \/ namedEntityRecognition
    \/ textTranslator
    \/ TranslatorCallback
    \/ bingWebSearch
    \/ bingNewsSearch
    \/ bingImageSearch
    \/ RequestError
    \/ Response
    \/ Data
    \/ End
    \/ StreamError

Spec == Init /\ [][Next]_vars

----------------------------------------------------------------------------
(* The flow engine invokes the connector a second time *)

\* the node runs again in the same conversation: the promise, the transport
\* and the records of the invocation start afresh, the context and the input
\* map are the ones the first invocation left
Again ==
    /\ round = 1
    /\ pc \in {"done", "uncaught"}
    /\ firstRun' = [finished |-> TRUE, promise |-> promise, context |-> context,
                    inputMap |-> inputMap, delivered |-> delivered, body |-> body]
    /\ round' = 2
    /\ pc' = "idle"
    /\ promise' = Pending
    /\ writes' = << >>
    /\ log' = << >>
    /\ outputs' = << >>
    /\ requests' = << >>
    /\ detached' = << >>
    /\ delivered' = [kind |-> "none"]
    /\ body' = << >>
    /\ UNCHANGED <<conn, args, context, inputMap, focus, other>>

NextTwice ==
    \/ Next
    \/ Again

SpecTwice == Init /\ [][NextTwice]_vars

----------------------------------------------------------------------------
(* Two conversations on one event loop *)

\* Switch leaving the context map in place: one map for both conversations
Switch_SharedContext ==
    /\ focus \in {1, 2}
    /\ focus' = 3 - focus
    /\ other' = Conversation
    /\ pc' = other.pc
    /\ conn' = other.conn
    /\ args' = other.args
    /\ promise' = other.promise
    /\ inputMap' = other.inputMap
    /\ writes' = other.writes
    /\ log' = other.log
    /\ outputs' = other.outputs
    /\ requests' = other.requests
    /\ detached' = other.detached
    /\ delivered' = other.delivered
    /\ body' = other.body
    /\ UNCHANGED <<context, round, firstRun>>

\* the event loop turns from one conversation's callbacks to the other's
Switch ==
    /\ focus \in {1, 2}
    /\ focus' = 3 - focus
    /\ other' = Conversation
    /\ pc' = other.pc
    /\ conn' = other.conn
    /\ args' = other.args
    /\ promise' = other.promise
    /\ context' = other.context
    /\ inputMap' = other.inputMap
    /\ writes' = other.writes
    /\ log' = other.log
    /\ outputs' = other.outputs
    /\ requests' = other.requests
    /\ detached' = other.detached
    /\ delivered' = other.delivered
    /\ body' = other.body
    /\ UNCHANGED <<round, firstRun>>

InitTwo ==
    /\ InitConversation
    /\ round = 1
    /\ firstRun = NoRun
    /\ focus = 1
    /\ other = IdleConversation

\* two conversations, each invoking one connector of each transport family
NextTwo ==
    \/ getTicketStatus
    \/ JiraCallback
    \/ GETFromTable
    \/ ServiceNowSettled
    \/ spellCheck
    \/ RequestError
    \/ Response
    \/ Data
    \/ End
    \/ StreamError
    \/ Switch

SpecTwo == InitTwo /\ [][NextTwo]_vars

----------------------------------------------------------------------------
(* Vocabulary of the properties *)

\* the text of a rejection reason: an Error's message, or the string itself
MessageOf(v) ==
    IF v.tag = "Error" THEN v.message.s
    ELSE IF v.tag = "string" /\ "s" \in DOMAIN v THEN v.s
    ELSE "(no text)"

\* the messages of the connector's validation statements
ValidationMessages(c) == {Checks(c)[i].msg : i \in 1..Len(Checks(c))}

\* the promise was rejected by one of the connector's validation statements
RejectedByValidation ==
    /\ promise.state = "rejected"
    /\ MessageOf(promise.value) \in ValidationMessages(conn)

\* the fields a validation message names in its text
FieldsNamed(msg) ==
    CASE msg = "Secret not defined." -> {"secret"}
      [] msg = "Secret not defined or invalid." -> {"secret"}
      [] msg = "Secret is missing the 'username' field." -> {"secret.username"}
      [] msg = "Secret is missing the 'password' field." -> {"secret.password"}
      [] msg = "Secret is missing the 'domain' field." -> {"secret.domain"}
      [] msg = "Secret is missing the 'instance' field." -> {"secret.instance"}
      [] msg = "Summary not defined." -> {"summary"}
      [] msg = "Project Id not defined." -> {"projectId"}
      [] msg = "Epicname not defined." -> {"epicname"}
      [] msg = "Description not defined." -> {"description"}
      [] msg = "Context store not defined." -> {"contextStore", "store"}
      [] msg = "Stop on error flag not defined." -> {"stopOnError"}
      [] msg = "No ticket defined. Please define a ticket like AB-1234." -> {"ticket"}
      [] msg = "No entity defined." -> {"entity"}
      [] msg = "No version defined." -> {"api_version"}
      [] msg = "Table name not defined." -> {"tableName"}
      [] msg = "Data to post not defined." -> {"data"}
      [] msg = "Sys Id not defined." -> {"sysId"}
      [] msg = "Table sys Id not defined." -> {"tableSysId"}
      [] msg = "File name not defined." -> {"fileName"}
      [] msg = "File location not defined." -> {"fileLocation"}
      [] msg = "No text defined." -> {"text"}
      [] msg = "No query defined." -> {"query"}
      [] msg = "No news term defined." -> {"term"}
      [] msg = "No image term defined." -> {"term"}
      [] OTHER -> {}

\* the fields the invocation left out, an undefined stopOnError among them
MissingFields ==
    args.missing \cup (IF args.stopOnError = "undefined" THEN {"stopOnError"} ELSE {})

\* the connector has been invoked
Invoked == pc # "idle"

\* the transport has delivered its outcome and the connector's handler has run
Finished == pc \in {"done", "uncaught"}

\* the value at the store location the arguments configure
StoreValue ==
    IF conn \in BingConnectors \/ (conn \in AzureConnectors /\ ~WriteToContext(args))
    THEN inputMap[StoreKey(conn, args)]
    ELSE context[StoreKey(conn, args)]

\* an object { error: m } with m a non-empty string
IsErrorObject(v) ==
    /\ v.tag = "object"
    /\ DOMAIN v = {"tag", "error"}
    /\ v.error.tag = "string"
    /\ "s" \in DOMAIN v.error
    /\ v.error.s # ""

\* a value written as an { error } object, whatever its message
IsErrorWrite(w) == w.value.tag = "object" /\ DOMAIN w.value = {"tag", "error"}

\* the outbound call failed in the transport: a network failure handed to the
\* Jira callback, a rejected axios request, a failed https request or
\* response stream, an err handed to the request callback
TransportFailed ==
    \/ delivered.kind = "jira" /\ delivered.error.tag = "Error"
    \/ delivered.kind = "axios" /\ ~delivered.ok
    \/ delivered.kind \in {"requestError", "streamError", "fileRequestError"}
    \/ delivered.kind = "request" /\ Truthy(delivered.err)

----------------------------------------------------------------------------
(* Properties *)

\* C1: an invocation that leaves out a required argument or secret field is
\* rejected by a validation error whose message names a field it left out,
\* and no request has been issued, whatever stopOnError is.
C1_MissingFieldRejected ==
    (Invoked /\ args.missing # {}) =>
        /\ RejectedByValidation
        /\ FieldsNamed(MessageOf(promise.value)) \cap MissingFields # {}
        /\ requests = << >>

\* C2: when stopOnError is false and the outbound call failed in the
\* transport, the promise is resolved and the store location holds
\* { error: m } with m a non-empty string.
C2_TransportFailureStored ==
    (Finished /\ TransportFailed /\ args.stopOnError = "false") =>
        /\ promise.state = "resolved"
        /\ IsErrorObject(StoreValue)

\* C3: when stopOnError is true and the outbound call failed in the
\* transport, the promise is rejected and no write was made.
C3_TransportFailureAborts ==
    (Finished /\ TransportFailed /\ args.stopOnError = "true") =>
        /\ promise.state = "rejected"
        /\ writes = << >>

\* C4: an invocation makes at most one write to the conversation state.
C4_AtMostOneWrite == Len(writes) <= 1

\* C5 as stated: every invocation issues at most one outbound request.
C5_AtMostOneRequest == Len(requests) <= 1

\* C5, amended: POSTAttachment issues at most two requests, the download of
\* the file and then the POST to the attachment API; every other connector
\* issues at most one; and no request is issued a second time.
C5_RequestsBounded ==
    /\ Len(requests) <= (IF conn = "POSTAttachment" THEN 2 ELSE 1)
    /\ \A i, j \in 1..Len(requests) : i # j => requests[i] # requests[j]
    /\ (conn = "POSTAttachment" /\ Len(requests) = 2) =>
            requests = << FileRequest, ApiRequest("POSTAttachment") >>

\* C5's case: POSTAttachment has finished after both of its requests
C5_Witness ==
    /\ pc = "done"
    /\ conn = "POSTAttachment"
    /\ requests = << FileRequest, ApiRequest("POSTAttachment") >>
    /\ delivered.kind = "axios"

\* C6: an invocation whose stopOnError is undefined is rejected by a
\* validation error and issues no request.
C6_UndefinedStopOnErrorRejected ==
    (Invoked /\ args.stopOnError = "undefined") =>
        /\ RejectedByValidation
        /\ requests = << >>

\* C7: an invocation that passed validation completes: once no step of the
\* invocation is left to take, its promise is resolved or rejected.
C7_InvocationCompletes ==
    (Invoked /\ Valid(conn, args) /\ ~ENABLED Next) => promise.state # "pending"

\* C8: an invocation that wrote a success payload wrote no { error } object
\* and was not rejected.
C8_NeverBothOutcomes ==
    LET success == {i \in 1..Len(writes) : ~IsErrorWrite(writes[i])}
        errors == {i \in 1..Len(writes) : IsErrorWrite(writes[i])}
    IN  success # {} => (errors = {} /\ promise.state # "rejected")

\* the Jira client reported an error without errorMessages
UnrecognizedJiraError ==
    /\ delivered.kind = "jira"
    /\ Truthy(delivered.error)
    /\ ~Truthy(Get(delivered.error, "errorMessages"))

\* C9: in the Jira fetch connectors an error of unrecognized shape respects
\* stopOnError: false resolves with { error: message } in the context store,
\* true rejects.
C9_UnrecognizedErrorRespectsPolicy ==
    (Finished /\ conn \in JiraFetchConnectors /\ UnrecognizedJiraError) =>
        IF StopOnError(args)
        THEN promise.state = "rejected"
        ELSE promise.state = "resolved" /\ IsErrorObject(StoreValue)

\* the response body that arrived is not JSON
UnparsableBody ==
    \/ delivered.kind = "end" /\ ~JSONValid(body)
    \/ delivered.kind = "request" /\ ~Truthy(delivered.err) /\ delivered.body.tag = "string"

\* C10: in the cognitive-text and Bing connectors a body that is not JSON is
\* an error governed by stopOnError: false resolves with { error: message }
\* at the store location, true rejects with no write.
C10_UnparsableBodyRespectsPolicy ==
    (Finished /\ conn \in AzureConnectors \cup BingConnectors /\ UnparsableBody) =>
        /\ args.stopOnError = "false" => (promise.state = "resolved" /\ IsErrorObject(StoreValue))
        /\ args.stopOnError = "true" => (promise.state = "rejected" /\ writes = << >>)

\* the Jira client reported no error and no issue: the issue is undefined,
\* null or an object without properties
EmptyJiraResult ==
    /\ delivered.kind = "jira"
    /\ ~Truthy(delivered.error)
    /\ (~Truthy(delivered.issue) \/ NoKeys(delivered.issue))

\* C11: a Jira fetch that returns no error and no issue takes the error path:
\* with stopOnError true the promise is rejected and nothing is written, with
\* stopOnError false the promise is resolved and the store holds
\* { error: m } with m a non-empty string.
C11_EmptyResultRespectsPolicy ==
    (Finished /\ conn \in JiraFetchConnectors /\ EmptyJiraResult) =>
        /\ args.stopOnError = "true" => (promise.state = "rejected" /\ writes = << >>)
        /\ args.stopOnError = "false" => (promise.state = "resolved" /\ IsErrorObject(StoreValue))

\* the message of the rejection the fetch connectors build for a missing issue
NoIssueFound == Str("Error while getting Jira issue. No issue was found")

\* C12 as stated: in getTicketSummary and getAllTicketInfo an empty or missing
\* issue leaves the promise resolved.
C12_EmptyIssueResolves ==
    (Finished /\ conn \in {"getTicketSummary", "getAllTicketInfo"} /\ EmptyJiraResult) =>
        promise.state = "resolved"

\* C12, amended: getTicketSummary builds the rejection, drops it and resolves;
\* getAllTicketInfo rejects the promise for a missing issue (undefined or
\* null) and still writes the issue, and for an empty object builds no
\* rejection and resolves.
C12_EmptyIssueOutcome ==
    (Finished /\ EmptyJiraResult) =>
        /\ conn = "getTicketSummary" =>
                /\ promise.state = "resolved"
                /\ \E i \in 1..Len(detached) : detached[i] = NoIssueFound
        /\ conn = "getAllTicketInfo" =>
                IF Truthy(delivered.issue)
                THEN promise.state = "resolved" /\ detached = << >>
                ELSE /\ promise = [state |-> "rejected", value |-> NoIssueFound]
                     /\ Len(writes) = 1
                     /\ writes[1].value = delivered.issue
                     /\ detached = << >>

\* C12's case: getAllTicketInfo has handled a callback without error and
\* without issue
C12_Witness ==
    /\ pc = "done"
    /\ conn = "getAllTicketInfo"
    /\ delivered.kind = "jira"
    /\ delivered.error = Null
    /\ delivered.issue = Undefined
    /\ promise.state = "rejected"

\* the Jira client reported an API error of a recognized shape: the payload
\* has an errorMessages list or an errorMessage field
RecognizedJiraError ==
    /\ delivered.kind = "jira"
    /\ Truthy(delivered.error)
    /\ \/ IsArray(Get(delivered.error, "errorMessages"))
       \/ "errorMessage" \in DOMAIN delivered.error

\* the message of a recognized error: the first entry of errorMessages when
\* that is a list, the errorMessage field otherwise
MessageOfPayload(error) ==
    IF "errorMessages" \in DOMAIN error /\ error.errorMessages.tag = "array"
    THEN (IF error.errorMessages.items = << >> THEN Undefined ELSE Head(error.errorMessages.items))
    ELSE IF "errorMessage" \in DOMAIN error THEN error.errorMessage ELSE Undefined

\* C13: in every Jira connector, when stopOnError is false and the API
\* reported a recognized error, the store holds { error: m } with m the first
\* entry of errorMessages when that is a list and the errorMessage field
\* otherwise.
C13_ExtractedMessageStored ==
    (Finished /\ conn \in JiraConnectors /\ RecognizedJiraError /\ args.stopOnError = "false") =>
        StoreValue = ErrObj(MessageOfPayload(delivered.error))

\* the target API answered with an error the connector extracts a message
\* from: a recognized Jira payload, or a request axios rejected
ApiErrorReturned ==
    \/ RecognizedJiraError
    \/ delivered.kind = "axios" /\ ~delivered.ok

\* the message extracted from that error
ExtractedMessage ==
    IF delivered.kind = "jira" THEN MessageOfPayload(delivered.error) ELSE delivered.error.message

\* what the call failed with: the message of an Error, or the value itself
RejectionText ==
    IF promise.value.tag = "Error" THEN promise.value.message ELSE promise.value

\* C14: when stopOnError is true and the target API returned a recognized
\* error, the promise is rejected and the rejection carries exactly the
\* extracted message, in every connector.
C14_RejectsWithExtractedMessage ==
    (Finished /\ ApiErrorReturned /\ args.stopOnError = "true") =>
        /\ promise.state = "rejected"
        /\ RejectionText = ExtractedMessage

\* the Jira client reported an error of no recognized shape: no errorMessages
\* list and no errorMessage field
UnrecognizedShape ==
    /\ delivered.kind = "jira"
    /\ Truthy(delivered.error)
    /\ ~IsArray(Get(delivered.error, "errorMessages"))
    /\ "errorMessage" \notin DOMAIN delivered.error

\* a fixed message: a plain non-empty string, not one built from a field
IsFixedMessage(v) == v.tag = "string" /\ "s" \in DOMAIN v /\ v.s # ""

\* C15: in every Jira connector an error of no recognized shape is reported
\* as a fixed generic message, in the rejection or in the stored { error }
\* object, and a log entry is emitted.
C15_UnrecognizedErrorGenericAndLogged ==
    (Finished /\ conn \in JiraConnectors /\ UnrecognizedShape) =>
        /\ log # << >>
        /\ promise.state = "rejected" => IsFixedMessage(promise.value)
        /\ promise.state = "resolved" => IsErrorObject(StoreValue)

\* the outbound call succeeded: an issue with properties, a response of
\* axios, a body that parsed
SuccessfulOutcome ==
    \/ /\ delivered.kind = "jira"
       /\ ~Truthy(delivered.error)
       /\ Truthy(delivered.issue)
       /\ ~NoKeys(delivered.issue)
    \/ delivered.kind = "axios" /\ delivered.ok
    \/ delivered.kind = "end" /\ JSONValid(body)
    \/ delivered.kind = "request" /\ ~Truthy(delivered.err) /\ delivered.body.tag = "json"

\* the caller named a store location
StoreGiven == StoreField(conn) \notin args.missing

\* the connectors that store the response as it arrived, and what arrived
StoresRaw == {"createJiraTicket", "getAllTicketInfo", "GetEntity", "textTranslator"} \cup HttpsConnectors
RawResponse ==
    CASE delivered.kind = "jira" -> delivered.issue
      [] delivered.kind = "axios" -> delivered.data
      [] delivered.kind = "end" -> [tag |-> "json", text |-> body]
      [] delivered.kind = "request" -> delivered.body

\* C16: after a successful outcome the connector has made exactly one write,
\* of the success payload and not of an { error } object, to the store
\* location the caller named, the write was made while the promise was
\* pending, and the promise is resolved with the input.
C16_OneSuccessWriteThenResolve ==
    (Finished /\ SuccessfulOutcome /\ StoreGiven) =>
        /\ Len(writes) = 1
        /\ writes[1].key = args.store
        /\ writes[1].promise = "pending"
        /\ ~IsErrorWrite(writes[1])
        /\ conn \in StoresRaw => writes[1].value = RawResponse
        /\ StoreValue = writes[1].value
        /\ promise = [state |-> "resolved", value |-> InputRef]

\* C16's case: GetEntity has stored the response of its request
C16_Witness ==
    /\ pc = "done"
    /\ conn = "GetEntity"
    /\ delivered.kind = "axios"
    /\ delivered.ok
    /\ StoreGiven
    /\ Len(writes) = 1
    /\ promise.state = "resolved"

\* the characters of the input text by kind
UpperCase == {"A"}
LowerCase == {"b"}
DigitChars == {"7"}

\* a ticket-style token: one or more letters, a hyphen, one or more digits
IsTicketToken(s) ==
    \E l \in 1..(Len(s) - 2) :
        /\ \A i \in 1..l : s[i] \in UpperCase \cup LowerCase
        /\ s[l + 1] = "-"
        /\ \A i \in (l + 2)..Len(s) : s[i] \in DigitChars

\* where the tokens of a text start and end
TokenSpans(t) ==
    {sp \in (1..Len(t)) \X (1..Len(t)) : sp[1] <= sp[2] /\ IsTicketToken(SubSeq(t, sp[1], sp[2]))}

\* the first token of a text that has one: the one that starts first, taken
\* to its full length
FirstToken(t) ==
    LET sp == CHOOSE a \in TokenSpans(t) :
                  \A b \in TokenSpans(t) : a[1] < b[1] \/ (a[1] = b[1] /\ a[2] >= b[2])
    IN  SubSeq(t, sp[1], sp[2])

\* extractTicket has run on an input text
TicketExtracted ==
    /\ pc = "done"
    /\ conn = "extractTicket"
    /\ Valid(conn, args)
    /\ args.hasText

\* C17: extractTicket makes exactly one write and no request; the store
\* receives the first ticket-style token of the text when there is one and
\* "No ticket found" when there is none.
C17_ExtractsFirstToken ==
    TicketExtracted =>
        /\ requests = << >>
        /\ Len(writes) = 1
        /\ writes[1].key = args.store
        /\ context[args.store] = writes[1].value
        /\ writes[1].value =
                IF TokenSpans(args.inputText) = {}
                THEN Str("No ticket found")
                ELSE Text(FirstToken(args.inputText))

\* C17's case: a text with two tokens, of which the first was stored
C17_Witness ==
    /\ TicketExtracted
    /\ args.inputText = << "A", "-", "7", "b", "-", "7" >>
    /\ context[args.store] = Text(<< "A", "-", "7" >>)

\* a token whose prefix consists of uppercase letters only
IsUpperCaseToken(s) ==
    \E l \in 1..(Len(s) - 2) :
        /\ \A i \in 1..l : s[i] \in UpperCase
        /\ s[l + 1] = "-"
        /\ \A i \in (l + 2)..Len(s) : s[i] \in DigitChars

\* the text has ticket-style tokens, and none of them, nor any part of one,
\* is a token with an uppercase prefix
OnlyLowerCaseTokens(t) ==
    /\ TokenSpans(t) # {}
    /\ \A i, j \in 1..Len(t) : i <= j => ~IsUpperCaseToken(SubSeq(t, i, j))

\* C18 as stated: a text whose tokens all have a lowercase letter in the
\* prefix is not matched, and the store receives "No ticket found".
C18_LowerCaseNotMatched ==
    (TicketExtracted /\ OnlyLowerCaseTokens(args.inputText)) =>
        context[args.store] = Str("No ticket found")

\* C18, amended: the prefix may consist of letters of either case; for a text
\* whose tokens all have a lowercase letter in the prefix the store receives
\* the first token, lowercase letters included.
C18_LowerCaseMatched ==
    (TicketExtracted /\ OnlyLowerCaseTokens(args.inputText)) =>
        LET stored == context[args.store]
        IN  /\ stored.tag = "text"
            /\ IsTicketToken(stored.chars)
            /\ \E i \in 1..Len(stored.chars) : stored.chars[i] \in LowerCase
            /\ stored.chars = FirstToken(args.inputText)

\* C18's case: the text "b-7" was stored as the ticket
C18_Witness ==
    /\ TicketExtracted
    /\ args.inputText = << "b", "-", "7" >>
    /\ context[args.store] = Text(<< "b", "-", "7" >>)

\* the fields of the summary and the path of the issue each is read from
SummaryFields ==
    {"ticket", "type", "project", "status", "assignedTo", "reportedBy", "resolution", "comments"}
SourcePath(f) ==
    CASE f = "ticket" -> << "key" >>
      [] f = "type" -> << "fields", "issuetype", "name" >>
      [] f = "project" -> << "fields", "project", "name" >>
      [] f = "status" -> << "fields", "status", "name" >>
      [] f = "assignedTo" -> << "fields", "assignee", "emailAddress" >>
      [] f = "reportedBy" -> << "fields", "reporter", "emailAddress" >>
      [] f = "resolution" -> << "fields", "resolution", "name" >>
      [] f = "comments" -> << "fields", "comment", "comments" >>

\* the value at a path of an object; undefined when the path leaves the object
RECURSIVE At(_, _)
At(v, path) ==
    IF path = << >> THEN v
    ELSE IF v.tag = "object" /\ Head(path) \in DOMAIN v
         THEN At(v[Head(path)], Tail(path))
         ELSE Undefined

\* a path is absent when nothing, or null, is found at it
Absent(v) == v \in {Undefined, Null}

\* getTicketSummary has handled an issue with properties, returned without error
SummaryBuilt ==
    /\ pc = "done"
    /\ conn = "getTicketSummary"
    /\ delivered.kind = "jira"
    /\ ~Truthy(delivered.error)
    /\ delivered.issue.tag = "object"
    /\ ~NoKeys(delivered.issue)

\* C19: the object getTicketSummary stores has exactly the eight summary
\* fields; each holds the value at its path of the issue, and null when that
\* path is absent.
C19_SummaryProjection ==
    SummaryBuilt =>
        LET stored == context[StoreKey(conn, args)]
        IN  /\ Len(writes) = 1
            /\ stored.tag = "object"
            /\ DOMAIN stored = SummaryFields \cup {"tag"}
            /\ \A f \in SummaryFields :
                    stored[f] = IF Absent(At(delivered.issue, SourcePath(f)))
                                THEN Null
                                ELSE At(delivered.issue, SourcePath(f))

\* C19's case: the issue T-1, open and assigned, with no other field
C19_Witness ==
    /\ SummaryBuilt
    /\ Get(delivered.issue, "key") = Str("T-1")
    /\ "fields" \in DOMAIN delivered.issue
    /\ context[StoreKey(conn, args)].ticket = Str("T-1")
    /\ context[StoreKey(conn, args)].status = Str("Open")
    /\ context[StoreKey(conn, args)].assignedTo = Str("a@b.com")
    /\ context[StoreKey(conn, args)].type = Null

\* an optional argument was given a value: it is neither left out nor blank
Provided(v) == v \notin {Undefined, Str("")}

\* GETFromTable has passed validation and sent its request
TableRequested ==
    /\ Invoked
    /\ conn = "GETFromTable"
    /\ Valid(conn, args)

\* C20: GETFromTable's request carries sysparm_limit, caller_id and
\* assigned_to with the value supplied whenever limit, caller_id and
\* assigned_to are provided, and no assigned_to when that is not provided;
\* after a successful response the store holds response.data.result.
C20_TableListRequestAndResult ==
    TableRequested =>
        /\ Len(requests) = 1
        /\ "params" \in DOMAIN requests[1]
        /\ LET params == requests[1].params
           IN  /\ Provided(args.limit) =>
                       ("sysparm_limit" \in DOMAIN params /\ params.sysparm_limit = args.limit)
               /\ Provided(args.caller_id) =>
                       ("caller_id" \in DOMAIN params /\ params.caller_id = args.caller_id)
               /\ Provided(args.assigned_to) =>
                       ("assigned_to" \in DOMAIN params /\ params.assigned_to = args.assigned_to)
               /\ ~Provided(args.assigned_to) => "assigned_to" \notin DOMAIN params
        /\ (pc = "done" /\ delivered.ok /\ "result" \in DOMAIN delivered.data) =>
               /\ Len(writes) = 1
               /\ writes[1].key = args.store
               /\ context[args.store] = delivered.data.result

\* C20's case: a list was fetched with limit, caller_id and assigned_to given
C20_Witness ==
    /\ TableRequested
    /\ pc = "done"
    /\ args.limit = Num(10)
    /\ args.caller_id = Str("jane")
    /\ args.assigned_to = Str("jane")
    /\ requests[1].params.assigned_to = Str("jane")
    /\ delivered.ok
    /\ context[args.store] = Arr(<< Str("row") >>)

DeleteConnectors == {"DeleteFromTable", "DeleteAttachment"}

\* the literal text of each delete connector's confirmation
ConfirmationText(c) ==
    IF c = "DeleteFromTable" THEN "succefully deleted entry with id: "
    ELSE "succefully deleted attachment with id: "

\* a delete connector has handled the outcome of its request
DeleteSettled ==
    /\ pc = "done"
    /\ conn \in DeleteConnectors
    /\ delivered.kind = "axios"

\* C21: after a successful delete the store holds the connector's literal
\* confirmation with the sysId of the arguments in it, whatever the response
\* body was; after a failed delete no string was written.
C21_DeleteConfirmation ==
    DeleteSettled =>
        IF delivered.ok
        THEN /\ Len(writes) = 1
             /\ context[args.store] =
                    [tag |-> "string", prefix |-> ConfirmationText(conn), inner |-> args.sysId]
        ELSE \A i \in 1..Len(writes) : writes[i].value.tag # "string"

\* C21's case: a row was deleted and the response carried a body
C21_Witness ==
    /\ DeleteSettled
    /\ conn = "DeleteFromTable"
    /\ delivered.ok
    /\ delivered.data = [tag |-> "object", result |-> Arr(<< Str("row") >>)]
    /\ args.sysId = "9c1b"
    /\ context[args.store].tag = "string"

\* the maps of a conversation nothing has been written to
Untouched == [k \in Keys |-> Undefined]

\* C22: the web-search connectors write only into the input map, under
\* args.store; the context map is the one the invocation started with.
C22_BingWritesInputOnly ==
    conn \in BingConnectors =>
        /\ context = Untouched
        /\ \A i \in 1..Len(writes) :
               /\ writes[i].dest = "input"
               /\ writes[i].key = StoreKey(conn, args)
        /\ \A k \in Keys \ {StoreKey(conn, args)} : inputMap[k] = Undefined

\* C22's case: bingWebSearch has stored the error object of a failed response
C22_Witness ==
    /\ pc = "done"
    /\ conn = "bingWebSearch"
    /\ delivered.kind = "streamError"
    /\ Len(writes) = 1
    /\ IsErrorObject(inputMap[args.store])

\* C23: in the cognitive-text connectors every write, of a result or of an
\* error object, goes to the map writeToContext selects, under args.store,
\* and the other map is the one the invocation started with.
C23_WriteToContextSelects ==
    conn \in AzureConnectors =>
        /\ \A i \in 1..Len(writes) :
               /\ writes[i].dest = (IF args.writeToContext = "true" THEN "context" ELSE "input")
               /\ writes[i].key = StoreKey(conn, args)
        /\ args.writeToContext = "true" => inputMap = Untouched
        /\ args.writeToContext = "false" => context = Untouched

\* C23's case: spellCheck has stored the error object of a failed response in
\* the context map
C23_Witness ==
    /\ pc = "done"
    /\ conn = "spellCheck"
    /\ args.writeToContext = "true"
    /\ delivered.kind = "streamError"
    /\ IsErrorObject(context[args.store])
    /\ inputMap = Untouched

\* C24: an invocation emits no output to the conversation, writes at most
\* once and only under the store key of its arguments, and logs only when
\* the Jira client reported an error.
C24_OnlyStoreWriteAndLog ==
    /\ outputs = << >>
    /\ Len(writes) <= 1
    /\ \A i \in 1..Len(writes) : writes[i].key = StoreKey(conn, args)
    /\ log # << >> => (delivered.kind = "jira" /\ Truthy(delivered.error))

\* the invocation failed the validation of its arguments or secret
ValidationFailed == Invoked /\ ~Valid(conn, args)

\* C27: after a validation failure the context map, the input map, the
\* outputs and the log are as they were before the call, and no request was
\* sent.
C27_ValidationFailureTouchesNothing ==
    ValidationFailed =>
        /\ context = Untouched
        /\ inputMap = Untouched
        /\ outputs = << >>
        /\ log = << >>
        /\ writes = << >>
        /\ requests = << >>

\* C27's case: GetEntity was called without an entity and rejected
C27_Witness ==
    /\ ValidationFailed
    /\ conn = "GetEntity"
    /\ args.missing = {"entity"}
    /\ promise = [state |-> "rejected", value |-> Str("No entity defined.")]

\* the field of the issue each single-field connector is asked for
RequestedField(c) ==
    CASE c = "getTicketStatus" -> "status"
      [] c = "getTicketAssignee" -> "assignee"
      [] c = "getTicketPriority" -> "priority"
      [] c = "getTicketResolution" -> "resolution"
      [] c = "getTicketReporter" -> "reporter"
      [] c = "getTicketComments" -> "comment"
      [] c = "getTicketWatchers" -> "watches"

\* a single-field connector has handled an issue returned without error
FieldFetched ==
    /\ pc = "done"
    /\ conn \in FieldConnectors
    /\ delivered.kind = "jira"
    /\ ~Truthy(delivered.error)
    /\ Truthy(delivered.issue)

\* C28: the object a single-field connector stores has exactly the keys
\* ticket and status: ticket is issue.key or null, and status is the
\* requested field of issue.fields, or null when that is absent, whichever
\* field was requested.
C28_FieldStoredAsStatus ==
    FieldFetched =>
        LET stored == context[StoreKey(conn, args)]
            key == At(delivered.issue, << "key" >>)
            field == At(delivered.issue, << "fields", RequestedField(conn) >>)
        IN  /\ Len(writes) = 1
            /\ stored.tag = "object"
            /\ DOMAIN stored = {"tag", "ticket", "status"}
            /\ stored.ticket = (IF Absent(key) THEN Null ELSE key)
            /\ stored.status = (IF Absent(field) THEN Null ELSE field)

\* C28's case: getTicketAssignee has stored the assignee under the key status
C28_Witness ==
    /\ FieldFetched
    /\ conn = "getTicketAssignee"
    /\ Get(delivered.issue, "key") = Str("T-3")
    /\ context[StoreKey(conn, args)] =
           [tag |-> "object", ticket |-> Str("T-3"),
            status |-> [tag |-> "object", emailAddress |-> Str("a@b.com")]]

\* the second invocation has finished and the transport answered it as it
\* answered the first
RepeatedAlike ==
    /\ round = 2
    /\ Finished
    /\ delivered = firstRun.delivered
    /\ body = firstRun.body

\* C25: a second invocation with the arguments of the first, answered by the
\* transport as the first was, ends with the promise, the context map and the
\* input map the first one ended with.
C25_SecondInvocationAlike ==
    RepeatedAlike =>
        /\ promise = firstRun.promise
        /\ context = firstRun.context
        /\ inputMap = firstRun.inputMap

\* C25's case: GETFromTable has fetched the same rows twice
C25_Witness ==
    /\ RepeatedAlike
    /\ conn = "GETFromTable"
    /\ delivered.kind = "axios"
    /\ delivered.ok
    /\ context[args.store] = Arr(<< Str("row") >>)
    /\ Len(writes) = 1

\* the flow of an invocation nobody else has touched
FreshFlow ==
    [context |-> Untouched, inputMap |-> Untouched, writes |-> << >>, log |-> << >>,
     outputs |-> << >>, requests |-> << >>, detached |-> << >>, promise |-> Pending]

\* the flow part of a conversation
FlowOf(v) ==
    [context |-> v.context, inputMap |-> v.inputMap, writes |-> v.writes, log |-> v.log,
     outputs |-> v.outputs, requests |-> v.requests, detached |-> v.detached,
     promise |-> v.promise]

\* the request a conversation's invocation issues
RequestOf(v) == IF v.conn = "GETFromTable" THEN TableRequest(v.args) ELSE ApiRequest(v.conn)

\* the flow conversation v's invocation ends with when it is the only one
\* running and the transport hands it what it handed v
Alone(v) ==
    LET sent == sendRequest(FreshFlow, RequestOf(v))
        d == v.delivered
    IN  CASE d.kind = "jira" ->
                ProcessJiraIssueHandler(sent, v.conn, v.args, d.error, d.issue)
          [] d.kind = "axios" ->
                ServiceNowHandler(sent, v.conn, v.args,
                                  [ok |-> d.ok, data |-> d.data, error |-> d.error])
          [] d.kind = "end" ->
                IF JSONValid(v.body)
                THEN resolve(HttpsWrite(sent, v.conn, v.args, JSONParse(v.body)))
                ELSE sent
          [] d.kind = "streamError" ->
                StreamErrorHandler(sent, v.conn, v.args, d.error)
          [] OTHER -> sent

\* conversation v is as it is when no other conversation runs: nothing but
\* its request before its callback has run, the outcome of its own callback after
Undisturbed(v) ==
    CASE v.pc = "idle" -> FlowOf(v) = FreshFlow
      [] v.pc \in {"awaiting", "streaming"} ->
             FlowOf(v) = sendRequest(FreshFlow, RequestOf(v))
      [] OTHER -> FlowOf(v) = Alone(v)

\* C26: at every point of every interleaving of the invocations and callbacks
\* of two conversations, each conversation's promise, context map, input map,
\* writes, log and outputs are those of its invocation run alone; nothing of
\* one conversation shows in the other.
C26_ConversationsDoNotInterfere ==
    /\ Undisturbed(Conversation)
    /\ Undisturbed(other)

\* C26's case: a spell check and a ticket status fetch of two conversations
\* have both finished, each having written its own result
C26_Witness ==
    /\ focus = 1
    /\ conn = "spellCheck"
    /\ pc = "done"
    /\ delivered.kind = "end"
    /\ args.writeToContext = "true"
    /\ context["result"] = JSONParse(<< "{", "}" >>)
    /\ other.conn = "getTicketStatus"
    /\ other.pc = "done"
    /\ other.promise.state = "resolved"
    /\ Len(other.writes) = 1
    /\ other.context["result"] # context["result"]

=============================================================================
